---- MODULE Spec2Model ----
(***************************************************************************)
(* A model of the three provisioning scripts of aws-cicd:                  *)
(*   create_infrastructure.py  (CloudFormation stack + role map)           *)
(*   create_pipeline.py        (CodeBuild role, secret, bucket .. pipeline)*)
(*   deploy_contact_form.py    (Lambda role, function, HTTP API)           *)
(* A behaviour is a sequence of runs of ONE script against one remote      *)
(* account.  Every remote call is one step; its answer is drawn from the   *)
(* answers the control plane can give in the current remote state.         *)
(***************************************************************************)
EXTENDS Integers, Sequences, FiniteSets, TLC

VARIABLES
    script,         \* which script this behaviour runs
    run,            \* number of the current run
    pc,             \* position of the current run in the script
    calls,          \* remote calls issued by the current run: [op, ans]
    prev,           \* history: how the previous run ended, and the account then
    \* ---- create_infrastructure.py
    cfStack,        \* remote: the CloudFormation stack [status, body]
    template_body,  \* local: the template read by this run
    stack_exists,   \* local
    resources,      \* local: StackResources answered by describe_stack_resources
    roles,          \* local: what create_or_update_cf_stack returned
    printed,        \* local: the message of the entry point
    \* ---- create_pipeline.py
    cbRole,         \* remote: CodeBuildServiceRole [exists, policies]
    pipeRes,        \* remote: the named resources that exist
    secret_response,\* local: what get_secret_value answered
    github_token,   \* local: what get_secret returned
    \* ---- deploy_contact_form.py
    lambdaRole,     \* remote: ContactFormLambdaRole [exists, managed, inline]
    fn,             \* remote: the Lambda function [exists, code, env, perm]
    apis,           \* remote: the HTTP APIs, in creation order
    zipped_code,    \* local: the code bytes of this run
    env_vars,       \* local: the environment variables of this run
    api_id          \* local: index of the API created by this run (0: none)

infraLocals == <<template_body, stack_exists, resources, roles, printed>>
pipeRemote  == <<cbRole, pipeRes>>
deployRemote == <<lambdaRole, fn, apis>>
deployLocals == <<zipped_code, env_vars, api_id>>
pipeLocals == <<github_token, secret_response>>
vars == <<script, run, pc, calls, prev, cfStack, infraLocals, pipeRemote,
          pipeLocals, deployRemote, deployLocals>>

\* ---------------------------------------------------------------- bounds
MaxRuns == 2        \* runs of the script in one behaviour
MaxTemplates == 2   \* distinct template bodies
MaxRes == 3         \* resources in a stack
MaxRawLen == 2      \* length of a bare secret payload
MaxCode == 2        \* distinct code archives
MaxEnvVal == 1      \* distinct values of an environment variable

\* ------------------------------------------------------- Python values
\* A Python value is [t, v]: t its type, v a sequence (characters of a str,
\* digits of an int, <<key, value>> pairs of a dict, <<>> for None).
None == [t |-> "None", v |-> <<>>]
PyStr(s) == [t |-> "str", v |-> s]
PyEq(a, b) == a.t = b.t /\ a.v = b.v

\* ---------------------------------------------------------- exceptions
\* botocore: ClientError is the class of every service error; WaiterError
\* and the transport errors derive from BotoCoreError, not from ClientError.
IsClientError(ans) == ans \in {"NotFound", "Exists", "NoUpdates", "ClientError"}
IsException(ans) == ans # "ok"

Call(op, ans) == [op |-> op, ans |-> ans]
Issued(op) == \E i \in 1..Len(calls) : calls[i].op = op
Answered(op, ans) == \E i \in 1..Len(calls) : calls[i] = Call(op, ans)

\* =================================================================
\* create_infrastructure.py
\* =================================================================
Templates == 1..MaxTemplates
NoStack == [status |-> "NONE", body |-> 0]

ResTypes == {"AWS::IAM::Role", "AWS::S3::Bucket", "AWS::EC2::Instance"}
LogicalIds == <<"CodePipelineRole", "CodeDeployRole", "ArtifactBucket",
                "MyEC2Instance", "InstanceRole", "SecurityGroup">>
PhysicalIds == {"phys-a", "phys-b"}
\* CloudFormation gives every resource of a stack its own logical id.
ResourceLists ==
    UNION { { [i \in 1..n |-> [LogicalResourceId |-> LogicalIds[i],
                               ResourceType |-> ty[i],
                               PhysicalResourceId |-> ph[i]]] :
                ty \in [1..n -> ResTypes], ph \in [1..n -> PhysicalIds] } :
            n \in 0..MaxRes }

\* "does not exist" in str(e)
DoesNotExist(ans) == ans = "NotFound"
\* "No updates are to be performed" in str(e)
NoUpdates(ans) == ans = "NoUpdates"

\* the loop below without its test of ResourceType
RECURSIVE RoleLoop_NoFilter(_, _, _)
RoleLoop_NoFilter(res, i, role_arns) ==
    IF i > Len(res) THEN role_arns
    ELSE RoleLoop_NoFilter(res, i + 1,
            [k \in DOMAIN role_arns \cup {res[i].LogicalResourceId} |->
                IF k = res[i].LogicalResourceId THEN res[i].PhysicalResourceId
                ELSE role_arns[k]])
\* the loop over resources['StackResources'], lines 54-56
RECURSIVE RoleLoop(_, _, _)
RoleLoop(res, i, role_arns) ==
    IF i > Len(res) THEN role_arns
    ELSE IF res[i].ResourceType = "AWS::IAM::Role"
         THEN RoleLoop(res, i + 1,
                [k \in DOMAIN role_arns \cup {res[i].LogicalResourceId} |->
                    IF k = res[i].LogicalResourceId THEN res[i].PhysicalResourceId
                    ELSE role_arns[k]])
         ELSE RoleLoop(res, i + 1, role_arns)
EmptyDict == [k \in {} |-> "phys-a"]
RoleMap(res) == RoleLoop(res, 1, EmptyDict)
Dict(d) == [t |-> "dict", v |-> d]
Unset == [t |-> "unset", v |-> <<>>]

\* `if roles:` in the entry point
Truthy(val) ==
    CASE val.t = "None" -> FALSE
      [] val.t = "dict" -> DOMAIN val.v # {}
      [] val.t = "str"  -> Len(val.v) > 0
      [] val.t = "int"  -> val.v # <<"0">>
      [] val.t = "bytes" -> Len(val.v) > 0
      [] OTHER -> FALSE

\* the answers describe_stacks can give
DescribeStacksAnswers ==
    (IF cfStack.status = "NONE" THEN {"NotFound"} ELSE {"ok"})
        \cup {"ClientError", "BotoCoreError"}

InfraReturn(val) ==
    /\ roles' = val
    /\ pc' = "main"

InfraRaise ==
    /\ pc' = "crashed"
    /\ UNCHANGED roles

\* lines 9-18
DescribeStacks ==
    /\ script = "infra" /\ pc = "describe_stacks"
    /\ \E ans \in DescribeStacksAnswers :
        /\ calls' = Append(calls, Call("describe_stacks", ans))
        /\ IF ans = "ok"
           THEN stack_exists' = TRUE /\ pc' = "update_stack" /\ UNCHANGED roles
           ELSE IF IsClientError(ans)
                THEN IF DoesNotExist(ans)
                     THEN stack_exists' = FALSE /\ pc' = "create_stack"
                          /\ UNCHANGED roles
                     ELSE InfraReturn(None) /\ UNCHANGED stack_exists
                ELSE InfraRaise /\ UNCHANGED stack_exists
    /\ UNCHANGED <<script, run, prev, cfStack, template_body, resources, printed,
                   pipeRemote, pipeLocals, deployRemote, deployLocals>>

\* the answers update_stack can give: a stack left by a failed create cannot
\* be updated; an unchanged template is answered "No updates are to be performed"
UpdateStackAnswers ==
    (IF cfStack.status = "ROLLBACK_COMPLETE" THEN {}
     ELSE IF cfStack.body = template_body THEN {"NoUpdates"} ELSE {"ok"})
        \cup {"ClientError", "BotoCoreError"}

\* where the update branch goes after update_stack or its waiter raised
\* (lines 30-35: `except cf_client.exceptions.ClientError`)
\* (variant: "No updates are to be performed" taken for an error)
UpdateStackHandler_NoUpdatesFatal(ans) ==
    IF IsClientError(ans) THEN "return_none" ELSE "raise"
UpdateStackHandler(ans) ==
    IF IsClientError(ans)
    THEN IF NoUpdates(ans) THEN "fetch" ELSE "return_none"
    ELSE "raise"

\* lines 20-27, 30-35
UpdateStack ==
    /\ script = "infra" /\ pc = "update_stack" /\ stack_exists
    /\ \E ans \in UpdateStackAnswers :
        /\ calls' = Append(calls, Call("update_stack", ans))
        /\ IF ans = "ok"
           THEN pc' = "wait_update" /\ UNCHANGED roles
           ELSE CASE UpdateStackHandler(ans) = "fetch" ->
                        pc' = "fetch" /\ UNCHANGED roles
                  [] UpdateStackHandler(ans) = "return_none" -> InfraReturn(None)
                  [] OTHER -> InfraRaise
    /\ UNCHANGED <<script, run, prev, cfStack, template_body, stack_exists,
                   resources, printed, pipeRemote, pipeLocals, deployRemote,
                   deployLocals>>

\* what the waiter can report: the stack reaches the complete state, or a
\* failure state (WaiterError), or the bounded wait runs out (WaiterError)
WaiterAnswers == {"ok", "WaiterError"}

\* line 28-29
WaitUpdate ==
    /\ script = "infra" /\ pc = "wait_update"
    /\ \E ans \in WaiterAnswers :
        /\ calls' = Append(calls, Call("wait_update", ans))
        /\ IF ans = "ok"
           THEN /\ cfStack' = [status |-> "UPDATE_COMPLETE", body |-> template_body]
                /\ pc' = "fetch" /\ UNCHANGED roles
           ELSE /\ cfStack' = [cfStack EXCEPT !.status = "UPDATE_ROLLBACK_COMPLETE"]
                /\ CASE UpdateStackHandler(ans) = "fetch" ->
                            pc' = "fetch" /\ UNCHANGED roles
                     [] UpdateStackHandler(ans) = "return_none" -> InfraReturn(None)
                     [] OTHER -> InfraRaise
    /\ UNCHANGED <<script, run, prev, template_body, stack_exists, resources,
                   printed, pipeRemote, pipeLocals, deployRemote, deployLocals>>

\* lines 36-43, 46-48: `except Exception` catches everything
CreateStack ==
    /\ script = "infra" /\ pc = "create_stack" /\ ~stack_exists
    /\ \E ans \in {"ok", "ClientError", "BotoCoreError"} :
        /\ calls' = Append(calls, Call("create_stack", ans))
        /\ IF ans = "ok"
           THEN pc' = "wait_create" /\ UNCHANGED roles
           ELSE InfraReturn(None)
    /\ UNCHANGED <<script, run, prev, cfStack, template_body, stack_exists,
                   resources, printed, pipeRemote, pipeLocals, deployRemote,
                   deployLocals>>

\* where the create branch goes after the waiter raised (lines 46-48)
WaitCreateHandler(ans) == IF IsException(ans) THEN "return_none" ELSE "raise"

\* lines 44-48
WaitCreate ==
    /\ script = "infra" /\ pc = "wait_create"
    /\ \E ans \in WaiterAnswers :
        /\ calls' = Append(calls, Call("wait_create", ans))
        /\ IF ans = "ok"
           THEN /\ cfStack' = [status |-> "CREATE_COMPLETE", body |-> template_body]
                /\ pc' = "fetch" /\ UNCHANGED roles
           ELSE /\ cfStack' = [status |-> "ROLLBACK_COMPLETE", body |-> template_body]
                /\ IF WaitCreateHandler(ans) = "return_none"
                   THEN InfraReturn(None)
                   ELSE InfraRaise
    /\ UNCHANGED <<script, run, prev, template_body, stack_exists, resources,
                   printed, pipeRemote, pipeLocals, deployRemote, deployLocals>>

\* lines 50-60
DescribeStackResources ==
    /\ script = "infra" /\ pc = "fetch"
    /\ \/ \E res \in ResourceLists :
            /\ calls' = Append(calls, Call("describe_stack_resources", "ok"))
            /\ resources' = res
            /\ InfraReturn(Dict(RoleMap(res)))
       \/ \E ans \in {"ClientError", "BotoCoreError"} :
            /\ calls' = Append(calls, Call("describe_stack_resources", ans))
            /\ UNCHANGED resources
            /\ InfraReturn(None)
    /\ UNCHANGED <<script, run, prev, cfStack, template_body, stack_exists,
                   printed, pipeRemote, pipeLocals, deployRemote, deployLocals>>

\* lines 68-74
MainMessage(val) == IF Truthy(val) THEN "complete" ELSE "failed"

InfraMain ==
    /\ script = "infra" /\ pc = "main"
    /\ printed' = MainMessage(roles)
    /\ pc' = "done"
    /\ UNCHANGED <<script, run, calls, prev, cfStack, template_body, stack_exists,
                   resources, roles, pipeRemote, pipeLocals, deployRemote,
                   deployLocals>>

\* =================================================================
\* create_pipeline.py
\* =================================================================
\* ---- json.loads on a text without whitespace, escapes or arrays: a value is
\* an object, a string, an integer or null.  A parse result is
\* [ok, val, next]: next is the index after the value.
ParseFail == [ok |-> FALSE, val |-> None, next |-> 0]
Parsed(val, next) == [ok |-> TRUE, val |-> val, next |-> next]
Digits == {"0", "1"}
At(s, i) == IF i \in 1..Len(s) THEN s[i] ELSE "EOF"

RECURSIVE ScanQuote(_, _)
ScanQuote(s, j) ==
    IF j > Len(s) THEN 0 ELSE IF s[j] = "\"" THEN j ELSE ScanQuote(s, j + 1)

ParseString(s, i) ==
    LET close == ScanQuote(s, i + 1) IN
    IF At(s, i) # "\"" \/ close = 0 THEN ParseFail
    ELSE Parsed(PyStr(SubSeq(s, i + 1, close - 1)), close + 1)

RECURSIVE ScanDigits(_, _)
ScanDigits(s, j) == IF At(s, j) \in Digits THEN ScanDigits(s, j + 1) ELSE j

\* (0|[1-9][0-9]*): a leading 0 ends the number
ParseNumber(s, i) ==
    IF At(s, i) = "0" THEN Parsed([t |-> "int", v |-> <<"0">>], i + 1)
    ELSE IF At(s, i) \in Digits
         THEN Parsed([t |-> "int", v |-> SubSeq(s, i, ScanDigits(s, i) - 1)],
                     ScanDigits(s, i))
         ELSE ParseFail

ParseNull(s, i) ==
    IF i + 3 <= Len(s) /\ SubSeq(s, i, i + 3) = <<"n", "u", "l", "l">>
    THEN Parsed(None, i + 4)
    ELSE ParseFail

RECURSIVE ParseValue(_, _)
RECURSIVE ParsePairs(_, _, _)
\* the pairs of an object from index i on, after "{" or ","; d the dict so far
ParsePairs(s, i, d) ==
    LET k == ParseString(s, i) IN
    IF ~k.ok \/ At(s, k.next) # ":" THEN ParseFail
    ELSE LET x == ParseValue(s, k.next + 1) IN
         IF ~x.ok THEN ParseFail
         ELSE LET d2 == [key \in DOMAIN d \cup {k.val.v} |->
                            IF key = k.val.v THEN x.val ELSE d[key]] IN
              IF At(s, x.next) = "}" THEN Parsed([t |-> "dict", v |-> d2], x.next + 1)
              ELSE IF At(s, x.next) = "," THEN ParsePairs(s, x.next + 1, d2)
              ELSE ParseFail

ParseObject(s, i) ==
    IF At(s, i + 1) = "}" THEN Parsed([t |-> "dict", v |-> <<>>], i + 2)
    ELSE ParsePairs(s, i + 1, <<>>)

ParseValue(s, i) ==
    CASE At(s, i) = "{"  -> ParseObject(s, i)
      [] At(s, i) = "\"" -> ParseString(s, i)
      [] At(s, i) \in Digits -> ParseNumber(s, i)
      [] At(s, i) = "n"  -> ParseNull(s, i)
      [] OTHER -> ParseFail

\* json.loads: the whole text is one value, else JSONDecodeError
json_loads(s) ==
    LET r == ParseValue(s, 1) IN
    IF r.ok /\ r.next = Len(s) + 1 THEN r ELSE ParseFail

github_token_key == <<"g", "i", "t", "h", "u", "b", "_", "t", "o", "k", "e", "n">>

\* json.loads(secret).get('github_token', secret): only a dict has .get
DictGet(decoded, secret) ==
    IF decoded.t = "dict"
    THEN [raised |-> FALSE,
          val |-> IF github_token_key \in DOMAIN decoded.v
                  THEN decoded.v[github_token_key] ELSE PyStr(secret)]
    ELSE [raised |-> TRUE, val |-> None]

\* get_secret, lines 4-21.  response: [raised, kind, payload]
get_secret(response) ==
    IF response.raised THEN None
    ELSE IF response.kind = "SecretString"
         THEN LET secret == response.payload
                  d == json_loads(secret) IN
              IF d.ok
              THEN IF DictGet(d.val, secret).raised THEN None
                   ELSE DictGet(d.val, secret).val
              ELSE PyStr(secret)
         ELSE [t |-> "bytes", v |-> response.payload]

\* ---- what Secrets Manager can hold for the secret
RawAlphabet == {"a", "1", "\""}
RawPayloads == UNION { [1..n -> RawAlphabet] : n \in 0..MaxRawLen }
Quote(s) == <<"\"">> \o s \o <<"\"">>
Obj(k, text) == <<"{">> \o Quote(k) \o <<":">> \o text \o <<"}">>
ValueTexts ==
    { Quote(<<"a", "b", "c">>), Quote(<<>>), <<"1">>, <<"0">>,
      <<"n", "u", "l", "l">>, <<"{", "}">> }
ObjectPayloads ==
    { Obj(k, text) : k \in {github_token_key, <<"a">>}, text \in ValueTexts }
        \cup { <<"{", "}">>, <<"n", "u", "l", "l">>, Quote(<<"a">>),
               <<"{">> \o Quote(<<"a">>) \o <<":", "1", ",">>
                   \o Quote(github_token_key) \o <<":">> \o Quote(<<"a">>) \o <<"}">>,
               <<"{">> \o Quote(github_token_key) \o <<":">> \o Quote(<<"a">>) }
Payloads == RawPayloads \cup ObjectPayloads
NoResponse == [raised |-> FALSE, kind |-> "unset", payload |-> <<>>]
SecretResponses ==
    { [raised |-> TRUE, kind |-> "error", payload |-> <<>>] }
        \cup { [raised |-> FALSE, kind |-> "SecretString", payload |-> p] :
                    p \in Payloads }
        \cup { [raised |-> FALSE, kind |-> "SecretBinary", payload |-> p] :
                    p \in {<<>>, <<"a">>} }

S3Policy == "AmazonS3FullAccess"
CodeBuildPolicy == "AWSCodeBuildDeveloperAccess"
NoRole == [exists |-> FALSE, policies |-> {}]
PipeResources ==
    {"bucket", "application", "project", "deployment_group", "pipeline"}

pipeUnchangedInfraDeploy == <<cfStack, infraLocals, deployRemote, deployLocals>>

\* ensure_codebuild_role, lines 26-31: only NoSuchEntityException is caught
GetRole ==
    /\ script = "pipeline" /\ pc = "get_role"
    /\ \E ans \in (IF cbRole.exists THEN {"ok"} ELSE {"NotFound"}) \cup {"ClientError"} :
        /\ calls' = Append(calls, Call("get_role", ans))
        /\ pc' = CASE ans = "ok" -> "get_secret"
                   [] ans = "NotFound" -> "create_role"
                   [] OTHER -> "crashed"
    /\ UNCHANGED <<script, run, prev, pipeRemote, pipeLocals, pipeUnchangedInfraDeploy>>

\* lines 44-48: not guarded
CreateRole ==
    /\ script = "pipeline" /\ pc = "create_role"
    /\ \E ans \in {"ok", "ClientError"} :
        /\ calls' = Append(calls, Call("create_role", ans))
        /\ IF ans = "ok"
           THEN cbRole' = [exists |-> TRUE, policies |-> {}] /\ pc' = "attach_s3"
           ELSE UNCHANGED cbRole /\ pc' = "crashed"
    /\ UNCHANGED <<script, run, prev, pipeRes, pipeLocals, pipeUnchangedInfraDeploy>>

\* lines 51-54: not guarded
AttachS3Policy ==
    /\ script = "pipeline" /\ pc = "attach_s3"
    /\ \E ans \in {"ok", "ClientError"} :
        /\ calls' = Append(calls, Call("attach_role_policy", ans))
        /\ IF ans = "ok"
           THEN cbRole' = [cbRole EXCEPT !.policies = @ \cup {S3Policy}]
                /\ pc' = "attach_codebuild"
           ELSE UNCHANGED cbRole /\ pc' = "crashed"
    /\ UNCHANGED <<script, run, prev, pipeRes, pipeLocals, pipeUnchangedInfraDeploy>>

\* lines 55-61: not guarded
AttachCodeBuildPolicy ==
    /\ script = "pipeline" /\ pc = "attach_codebuild"
    /\ \E ans \in {"ok", "ClientError"} :
        /\ calls' = Append(calls, Call("attach_role_policy", ans))
        /\ IF ans = "ok"
           THEN cbRole' = [cbRole EXCEPT !.policies = @ \cup {CodeBuildPolicy}]
                /\ pc' = "get_secret"
           ELSE UNCHANGED cbRole /\ pc' = "crashed"
    /\ UNCHANGED <<script, run, prev, pipeRes, pipeLocals, pipeUnchangedInfraDeploy>>

\* line 168: github_token = get_secret(...)
GetSecret ==
    /\ script = "pipeline" /\ pc = "get_secret"
    /\ \E response \in SecretResponses :
        /\ calls' = Append(calls, Call("get_secret_value",
                                       IF response.raised THEN "ClientError" ELSE "ok"))
        /\ secret_response' = response
        /\ github_token' = get_secret(response)
    /\ pc' = "check_token"
    /\ UNCHANGED <<script, run, prev, pipeRemote, pipeUnchangedInfraDeploy>>

\* lines 169-171: `if not github_token: exit(1)`
\* (variant: `if github_token is None`)
TokenMissing_OnlyNone(token) == token.t = "None"
TokenMissing(token) == ~Truthy(token)

CheckToken ==
    /\ script = "pipeline" /\ pc = "check_token"
    /\ pc' = IF TokenMissing(github_token) THEN "exited" ELSE "create_bucket"
    /\ UNCHANGED <<script, run, calls, prev, pipeRemote, pipeLocals,
                   pipeUnchangedInfraDeploy>>

\* the answers a create call can give for a resource identified by its name:
\* it exists already, or it is created, or the call fails; a deployment group
\* needs its application
CreateAnswers(res) ==
    (IF res \in pipeRes THEN {"Exists"}
     ELSE IF res = "deployment_group" /\ "application" \notin pipeRes THEN {}
     ELSE {"ok"}) \cup {"ClientError"}

\* where the entry point goes after a create call: each of the five is wrapped
\* in try / except Exception that prints and falls through
\* (variant: a failed create ends the run)
AfterCreate_Halts(ans, next) == IF ans \in {"ok", "Exists"} THEN next ELSE "crashed"
AfterCreate(ans, next) == next

PipeCreate(op, res, next) ==
    /\ script = "pipeline" /\ pc = op
    /\ \E ans \in CreateAnswers(res) :
        /\ calls' = Append(calls, Call(op, ans))
        /\ pipeRes' = IF ans = "ok" THEN pipeRes \cup {res} ELSE pipeRes
        /\ pc' = AfterCreate(ans, next)
    /\ UNCHANGED <<script, run, prev, cbRole, pipeLocals, pipeUnchangedInfraDeploy>>

\* lines 173-182
CreateBucket == PipeCreate("create_bucket", "bucket", "create_application")
\* lines 184-190
CreateApplication == PipeCreate("create_application", "application", "create_project")
\* lines 192-208
CreateProject == PipeCreate("create_project", "project", "create_deployment_group")
\* lines 210-224
CreateDeploymentGroup ==
    PipeCreate("create_deployment_group", "deployment_group", "create_pipeline")
\* lines 226-238, create_codepipeline lines 63-144
CreatePipeline == PipeCreate("create_pipeline", "pipeline", "done")

\* =================================================================
\* deploy_contact_form.py
\* =================================================================
Codes == 1..MaxCode
EnvNames == {"FROM_EMAIL", "TO_EMAIL"}
Envs == UNION { [names -> 1..MaxEnvVal] : names \in SUBSET EnvNames }
NoLambdaRole == [exists |-> FALSE, managed |-> FALSE, inline |-> FALSE]
NoFunction == [exists |-> FALSE, code |-> 0, env |-> <<>>, perm |-> 0]
NewApi == [integration |-> FALSE, route |-> FALSE, deployment |-> FALSE,
           stage |-> FALSE]

deployOther == <<cfStack, infraLocals, pipeRemote, pipeLocals>>

\* lines 33-42: only EntityAlreadyExistsException is caught
CreateLambdaRole ==
    /\ script = "deploy" /\ pc = "create_role"
    /\ \E ans \in (IF lambdaRole.exists THEN {"Exists"} ELSE {"ok"}) \cup {"ClientError"} :
        /\ calls' = Append(calls, Call("create_role", ans))
        /\ lambdaRole' = IF ans = "ok" THEN [lambdaRole EXCEPT !.exists = TRUE]
                         ELSE lambdaRole
        /\ pc' = CASE ans = "ok" -> "attach_role_policy"
                   [] ans = "Exists" -> "get_role"
                   [] OTHER -> "crashed"
    /\ UNCHANGED <<script, run, prev, fn, apis, deployLocals, deployOther>>

\* line 41, inside the except clause: not guarded
GetLambdaRole ==
    /\ script = "deploy" /\ pc = "get_role"
    /\ \E ans \in {"ok", "ClientError"} :
        /\ calls' = Append(calls, Call("get_role", ans))
        /\ pc' = IF ans = "ok" THEN "attach_role_policy" ELSE "crashed"
    /\ UNCHANGED <<script, run, prev, deployRemote, deployLocals, deployOther>>

\* lines 47-50: not guarded; attaching an attached policy succeeds
AttachBasicExecution ==
    /\ script = "deploy" /\ pc = "attach_role_policy"
    /\ \E ans \in {"ok", "ClientError"} :
        /\ calls' = Append(calls, Call("attach_role_policy", ans))
        /\ lambdaRole' = IF ans = "ok" THEN [lambdaRole EXCEPT !.managed = TRUE]
                         ELSE lambdaRole
        /\ pc' = IF ans = "ok" THEN "put_role_policy" ELSE "crashed"
    /\ UNCHANGED <<script, run, prev, fn, apis, deployLocals, deployOther>>

\* lines 63-70: try / except Exception that prints and falls through
AfterPutRolePolicy(ans) == "create_function"

PutRolePolicy ==
    /\ script = "deploy" /\ pc = "put_role_policy"
    /\ \E ans \in {"ok", "ClientError"} :
        /\ calls' = Append(calls, Call("put_role_policy", ans))
        /\ lambdaRole' = IF ans = "ok" THEN [lambdaRole EXCEPT !.inline = TRUE]
                         ELSE lambdaRole
        /\ pc' = AfterPutRolePolicy(ans)
    /\ UNCHANGED <<script, run, prev, fn, apis, deployLocals, deployOther>>

\* lines 86-105: env_vars and zipped_code are set right before the call;
\* only ResourceConflictException is caught
CreateFunction ==
    /\ script = "deploy" /\ pc = "create_function"
    /\ \E code \in Codes, env \in Envs,
          ans \in (IF fn.exists THEN {"Exists"} ELSE {"ok"}) \cup {"ClientError"} :
        /\ zipped_code' = code
        /\ env_vars' = env
        /\ calls' = Append(calls, Call("create_function", ans))
        /\ fn' = IF ans = "ok"
                 THEN [exists |-> TRUE, code |-> code, env |-> env, perm |-> 0]
                 ELSE fn
        /\ pc' = CASE ans = "ok" -> "create_api"
                   [] ans = "Exists" -> "update_function_code"
                   [] OTHER -> "crashed"
    /\ UNCHANGED <<script, run, prev, lambdaRole, apis, api_id, deployOther>>

\* where the conflict branch goes after update_function_code (lines 109-116)
\* (variant: the configuration is not updated)
AfterUpdateCode_SkipsConfiguration == "create_api"
AfterUpdateCode == "update_function_configuration"

\* lines 107-112: not guarded
UpdateFunctionCode ==
    /\ script = "deploy" /\ pc = "update_function_code"
    /\ \E ans \in {"ok", "ClientError"} :
        /\ calls' = Append(calls, Call("update_function_code", ans))
        /\ fn' = IF ans = "ok" THEN [fn EXCEPT !.code = zipped_code] ELSE fn
        /\ pc' = IF ans = "ok" THEN AfterUpdateCode ELSE "crashed"
    /\ UNCHANGED <<script, run, prev, lambdaRole, apis, deployLocals, deployOther>>

\* lines 113-117: Environment is given whole, and replaces the function's
UpdateFunctionConfiguration ==
    /\ script = "deploy" /\ pc = "update_function_configuration"
    /\ \E ans \in {"ok", "ClientError"} :
        /\ calls' = Append(calls, Call("update_function_configuration", ans))
        /\ fn' = IF ans = "ok" THEN [fn EXCEPT !.env = env_vars] ELSE fn
        /\ pc' = IF ans = "ok" THEN "create_api" ELSE "crashed"
    /\ UNCHANGED <<script, run, prev, lambdaRole, apis, deployLocals, deployOther>>

\* lines 124-128: no probe; an HTTP API is identified by its id, not its name
CreateApi ==
    /\ script = "deploy" /\ pc = "create_api"
    /\ \E ans \in {"ok", "ClientError"} :
        /\ calls' = Append(calls, Call("create_api", ans))
        /\ IF ans = "ok"
           THEN /\ apis' = Append(apis, NewApi)
                /\ api_id' = Len(apis) + 1
                /\ pc' = "create_integration"
           ELSE UNCHANGED <<apis, api_id>> /\ pc' = "crashed"
    /\ UNCHANGED <<script, run, prev, lambdaRole, fn, zipped_code, env_vars,
                   deployOther>>

\* one step of the API set-up on the API of this run: not guarded
ApiStep(op, field, next) ==
    /\ script = "deploy" /\ pc = op
    /\ \E ans \in {"ok", "ClientError"} :
        /\ calls' = Append(calls, Call(op, ans))
        /\ apis' = IF ans = "ok" THEN [apis EXCEPT ![api_id][field] = TRUE] ELSE apis
        /\ pc' = IF ans = "ok" THEN next ELSE "crashed"
    /\ UNCHANGED <<script, run, prev, lambdaRole, fn, deployLocals, deployOther>>

\* lines 131-136
CreateIntegration == ApiStep("create_integration", "integration", "create_route")
\* lines 139-143
CreateRoute == ApiStep("create_route", "route", "create_deployment")
\* line 146
CreateDeployment == ApiStep("create_deployment", "deployment", "create_stage")
\* line 147
CreateStage == ApiStep("create_stage", "stage", "add_permission")

\* lines 150-156: not guarded; the statement id APIGatewayInvoke is fixed, and
\* a statement id already in the function's policy is a conflict
AddPermission ==
    /\ script = "deploy" /\ pc = "add_permission"
    /\ \E ans \in (IF fn.perm # 0 THEN {"Exists"} ELSE {"ok"}) \cup {"ClientError"} :
        /\ calls' = Append(calls, Call("add_permission", ans))
        /\ fn' = IF ans = "ok" THEN [fn EXCEPT !.perm = api_id] ELSE fn
        /\ pc' = IF ans = "ok" THEN "done" ELSE "crashed"
    /\ UNCHANGED <<script, run, prev, lambdaRole, apis, deployLocals, deployOther>>

\* =================================================================
\* runs
\* =================================================================
Scripts == {"infra", "pipeline", "deploy"}
FirstPc(s) ==
    CASE s = "infra" -> "read_template"
      [] s = "pipeline" -> "get_role"
      [] OTHER -> "create_role"

Remote == <<cfStack, cbRole, pipeRes, lambdaRole, fn, apis>>
Desired == <<template_body, zipped_code, env_vars>>
NoPrev == [ok |-> FALSE, remote |-> <<>>, desired |-> <<>>]

\* answers that are not failures: the call did its work, or told the script
\* that the resource is there (or absent) already
Benign == {"ok", "Exists", "NoUpdates", "NotFound"}
NoFatalAnswer == \A i \in 1..Len(calls) : calls[i].ans \in Benign
\* the run reached the end of the script, every call answered
RunSucceeded ==
    /\ pc = "done"
    /\ NoFatalAnswer
    /\ script = "infra" => roles.t = "dict"

Init ==
    /\ script \in Scripts
    /\ run = 1
    /\ pc = FirstPc(script)
    /\ calls = <<>>
    /\ prev = NoPrev
    /\ cfStack = NoStack
    /\ template_body = 0 /\ stack_exists = FALSE /\ resources = <<>>
    /\ roles = Unset /\ printed = "none"
    /\ cbRole = NoRole /\ pipeRes = {}
    /\ github_token = Unset /\ secret_response = NoResponse
    /\ lambdaRole = NoLambdaRole /\ fn = NoFunction /\ apis = <<>>
    /\ zipped_code = 0 /\ env_vars = <<>> /\ api_id = 0

\* create_or_update_cf_stack, lines 6-7: the template file is read
ReadTemplate ==
    /\ script = "infra" /\ pc = "read_template"
    /\ template_body' \in Templates
    /\ pc' = "describe_stacks"
    /\ UNCHANGED <<script, run, calls, prev, cfStack, stack_exists, resources, roles,
                   printed, pipeRemote, pipeLocals, deployRemote, deployLocals>>

\* the script is invoked again, after the run before it has ended
NextRun ==
    /\ pc \in {"done", "crashed", "exited"}
    /\ run < MaxRuns
    /\ run' = run + 1
    /\ prev' = IF RunSucceeded
               THEN [ok |-> TRUE, remote |-> Remote, desired |-> Desired]
               ELSE NoPrev
    /\ pc' = FirstPc(script)
    /\ calls' = <<>>
    /\ template_body' = 0 /\ stack_exists' = FALSE /\ resources' = <<>>
    /\ roles' = Unset /\ printed' = "none"
    /\ github_token' = Unset /\ secret_response' = NoResponse
    /\ zipped_code' = 0 /\ env_vars' = <<>> /\ api_id' = 0
    /\ UNCHANGED <<script, cfStack, pipeRemote, deployRemote>>

Next ==
    \/ ReadTemplate \/ DescribeStacks \/ UpdateStack \/ WaitUpdate
    \/ CreateStack \/ WaitCreate \/ DescribeStackResources \/ InfraMain
    \/ GetRole \/ CreateRole \/ AttachS3Policy \/ AttachCodeBuildPolicy
    \/ GetSecret \/ CheckToken
    \/ CreateBucket \/ CreateApplication \/ CreateProject
    \/ CreateDeploymentGroup \/ CreatePipeline
    \/ CreateLambdaRole \/ GetLambdaRole \/ AttachBasicExecution \/ PutRolePolicy
    \/ CreateFunction \/ UpdateFunctionCode \/ UpdateFunctionConfiguration
    \/ CreateApi \/ CreateIntegration \/ CreateRoute \/ CreateDeployment
    \/ CreateStage \/ AddPermission
    \/ NextRun

Spec == Init /\ [][Next]_vars

\* =================================================================
\* claims
\* =================================================================
\* the inputs drawn so far in this run are those of the run before
SameDesired ==
    /\ template_body # 0 => template_body = prev.desired[1]
    /\ Issued("create_function") =>
            zipped_code = prev.desired[2] /\ env_vars = prev.desired[3]

\* C1 (as stated): a run that follows a successful run with the same desired
\* state, and whose calls are all answered, does not fail and leaves the
\* account as the run before left it: nothing is created a second time.
C1_SecondRunUnchanged ==
    (run > 1 /\ prev.ok /\ SameDesired /\ NoFatalAnswer)
        => (pc # "crashed" /\ Remote = prev.remote)

RoleIndices(res) == {i \in 1..Len(res) : res[i].ResourceType = "AWS::IAM::Role"}

\* C2: a stack that does not exist is created and never updated; a stack that
\* exists is updated and never created; and after update_stack answered "No
\* updates are to be performed" the function does not return None: it goes on
\* to describe_stack_resources and returns the role map of its answer.
C2_StackPaths ==
    script = "infra" =>
        /\ pc = "create_stack" => cfStack.status = "NONE"
        /\ pc = "update_stack" => cfStack.status # "NONE"
        /\ Answered("describe_stacks", "NotFound") =>
                /\ ~Issued("update_stack")
                /\ pc \in {"wait_create", "fetch"} => Issued("create_stack")
        /\ Answered("describe_stacks", "ok") =>
                /\ ~Issued("create_stack")
                /\ pc \in {"wait_update", "fetch"} => Issued("update_stack")
        /\ (run > 1 /\ prev.ok) => ~Issued("create_stack")
        /\ Answered("update_stack", "NoUpdates") =>
                /\ pc \in {"fetch", "main", "done"}
                /\ pc = "fetch" => roles = Unset
                /\ pc \in {"main", "done"} => Issued("describe_stack_resources")
                /\ Answered("describe_stack_resources", "ok") =>
                        /\ roles.t = "dict"
                        /\ DOMAIN roles.v =
                            {resources[i].LogicalResourceId : i \in RoleIndices(resources)}

\* C2 witness: the second run of an unchanged template ended with a role map
\* after "No updates are to be performed".
C2_Witness ==
    /\ script = "infra" /\ run = 2 /\ prev.ok /\ pc = "done"
    /\ Answered("update_stack", "NoUpdates")
    /\ roles.t = "dict" /\ DOMAIN roles.v # {}

\* what the stated resolution order gives for a SecretString payload
StatedResolution(payload) ==
    LET d == json_loads(payload) IN
    IF d.ok
    THEN IF d.val.t = "dict" /\ github_token_key \in DOMAIN d.val.v
         THEN d.val.v[github_token_key]
         ELSE d.val
    ELSE PyStr(payload)

\* C3 (as stated): for a SecretString retrieved without a transport error the
\* result is the value of github_token if the payload decodes and has the key,
\* the decoded value if it decodes without the key, the raw string if it does
\* not decode; and the result is not None.
C3_ResolutionOrder ==
    (script = "pipeline" /\ secret_response.kind = "SecretString")
        => /\ PyEq(github_token, StatedResolution(secret_response.payload))
           /\ github_token.t # "None"

\* C4: the role map returned has exactly one entry per resource of type
\* AWS::IAM::Role, keyed by its logical id and valued by its physical id, and
\* no entry for any other resource.
C4_RoleMap ==
    (script = "infra" /\ Answered("describe_stack_resources", "ok")) =>
        /\ roles.t = "dict"
        /\ DOMAIN roles.v =
                {resources[i].LogicalResourceId : i \in RoleIndices(resources)}
        /\ Cardinality(DOMAIN roles.v) = Cardinality(RoleIndices(resources))
        /\ \A i \in RoleIndices(resources) :
                roles.v[resources[i].LogicalResourceId] = resources[i].PhysicalResourceId
        /\ \A i \in 1..Len(resources) :
                i \notin RoleIndices(resources) =>
                    resources[i].LogicalResourceId \notin DOMAIN roles.v

\* C4 witness: a list of one IAM role and one S3 bucket gave a map of one entry.
C4_Witness ==
    /\ script = "infra" /\ Answered("describe_stack_resources", "ok")
    /\ Len(resources) = 2
    /\ {resources[i].ResourceType : i \in 1..2} = {"AWS::IAM::Role", "AWS::S3::Bucket"}
    /\ Cardinality(DOMAIN roles.v) = 1

AfterLambda ==
    {"create_api", "create_integration", "create_route", "create_deployment",
     "create_stage", "add_permission", "done"}

\* C5: when create_function answers with a conflict the function is updated in
\* place by two calls, each with its own effect: the code of a successful
\* update_function_code is the code of this run whatever becomes of the
\* configuration, and once the redeploy is through the environment is exactly
\* the variables of this run.
C5_Redeploy ==
    (script = "deploy" /\ Answered("create_function", "Exists")) =>
        /\ pc \in {"update_function_code", "update_function_configuration",
                   "crashed"} \cup AfterLambda
        /\ Answered("update_function_code", "ok") => fn.code = zipped_code
        /\ Answered("update_function_configuration", "ok") => fn.env = env_vars
        /\ (pc \in AfterLambda \/ Issued("create_api")) =>
                /\ Answered("update_function_code", "ok")
                /\ Answered("update_function_configuration", "ok")
                /\ fn.code = zipped_code
                /\ fn.env = env_vars

\* C5 witness: a redeploy with other code and with variables that lack one of
\* the first deploy's variables is through, and that variable is gone.
C5_Witness ==
    /\ script = "deploy" /\ run = 2 /\ prev.ok
    /\ Answered("create_function", "Exists") /\ pc = "create_api"
    /\ prev.remote[5].code # zipped_code
    /\ \E name \in DOMAIN prev.remote[5].env : name \notin DOMAIN env_vars
    /\ \E name \in DOMAIN env_vars : name \notin DOMAIN prev.remote[5].env
    /\ fn.env = env_vars

PipelineCreates ==
    {"create_bucket", "create_application", "create_project",
     "create_deployment_group", "create_pipeline"}
\* get_secret gave None, or an empty value
SecretFailed ==
    \/ github_token.t = "None"
    \/ github_token.t \in {"str", "bytes"} /\ github_token.v = <<>>

\* C6: in a run of create_pipeline.py whose secret retrieval failed, none of
\* create_bucket, create_application, create_project, create_deployment_group
\* and create_pipeline is issued: the run stops at the check.
C6_NoSecretNoCreate ==
    (script = "pipeline" /\ Issued("get_secret_value") /\ SecretFailed) =>
        /\ pc \in {"check_token", "exited"}
        /\ \A op \in PipelineCreates : ~Issued(op)

\* C6 witness: the run has exited on an empty secret, after the role was made.
C6_Witness ==
    /\ script = "pipeline" /\ pc = "exited"
    /\ github_token = PyStr(<<>>)
    /\ Issued("create_role")

\* C7 (as stated): when the waiter of the create path or of the update path
\* ends in a failure the function returns None: no exception escapes.
C7_WaiterFailureReturnsNone ==
    (script = "infra"
        /\ (Answered("wait_create", "WaiterError") \/ Answered("wait_update", "WaiterError")))
        => (pc \in {"main", "done"} /\ roles = None)

MutatingOps ==
    PipelineCreates \cup
    {"create_role", "attach_role_policy", "put_role_policy", "create_function",
     "update_function_code", "update_function_configuration", "create_api",
     "create_integration", "create_route", "create_deployment", "create_stage",
     "add_permission", "create_stack", "update_stack"}

\* C8 (as stated): no create or update call is issued in a run after an
\* earlier call of that run failed with a fatal error.
C8_HaltsOnFirstFatal ==
    \A i, j \in 1..Len(calls) :
        (i < j /\ calls[i].ans \notin Benign) => calls[j].op \notin MutatingOps

\* the calls whose failure the scripts print and pass over
PassedOver == PipelineCreates \cup {"put_role_policy"}
StepAfter(op) ==
    CASE op = "create_bucket" -> "create_application"
      [] op = "create_application" -> "create_project"
      [] op = "create_project" -> "create_deployment_group"
      [] op = "create_deployment_group" -> "create_pipeline"
      [] op = "create_pipeline" -> "done"
      [] OTHER -> "create_function"

\* C8 (amended): a fatal error of a call halts the run, no further remote call
\* being issued, except for create_bucket, create_application, create_project,
\* create_deployment_group, create_pipeline and put_role_policy: their failure
\* is passed over and the run goes on with the next call, so that a run of
\* create_pipeline.py that has passed the secret check issues all five creates.
C8_HaltsUnlessPassedOver ==
    /\ \A i \in 1..Len(calls) :
        calls[i].ans \notin Benign =>
            IF calls[i].op \in PassedOver /\ script # "infra"
            THEN i = Len(calls) => pc = StepAfter(calls[i].op)
            ELSE i = Len(calls) /\ pc \in {"crashed", "main", "done", "check_token", "exited"}
    /\ (script = "pipeline" /\ pc = "done") => \A op \in PipelineCreates : Issued(op)

\* C8 witness: create_pipeline.py ran to its end although create_bucket and
\* create_project had failed.
C8_Witness ==
    /\ script = "pipeline" /\ pc = "done"
    /\ Answered("create_bucket", "ClientError")
    /\ Answered("create_project", "ClientError")
    /\ Issued("create_pipeline")

\* the account as one uninterrupted successful run leaves it
Converged ==
    CASE script = "infra" -> cfStack.status # "NONE" /\ cfStack.body = template_body
      [] script = "pipeline" ->
            /\ cbRole = [exists |-> TRUE, policies |-> {S3Policy, CodeBuildPolicy}]
            /\ pipeRes = PipeResources
      [] OTHER ->
            /\ lambdaRole = [exists |-> TRUE, managed |-> TRUE, inline |-> TRUE]
            /\ fn = [exists |-> TRUE, code |-> zipped_code, env |-> env_vars,
                     perm |-> 1]
            /\ apis = << [integration |-> TRUE, route |-> TRUE, deployment |-> TRUE,
                          stage |-> TRUE] >>

\* C9 (as stated): whatever failed in the runs before, a run that completes
\* leaves the account as one uninterrupted successful run would.
C9_RerunConverges == RunSucceeded => Converged

\* C10 (as stated): the entry point prints the failure message if and only if
\* create_or_update_cf_stack returned None.
C10_FailureMessageIffNone ==
    (script = "infra" /\ pc = "done") => (printed = "failed" <=> roles.t = "None")
====
